---- MODULE Spec2Model ----
(***************************************************************************)
(* A model of the Webflow documentation agent (src/webflow_agent.py):      *)
(* WebflowAgent._make_request, list_items, get_item and update_item, the   *)
(* command-line main() that drives them, and the path-addressed document   *)
(* accessor that src/example_usage.py calls on the agent.                  *)
(*                                                                         *)
(* The remote collection service is the environment: it answers a pending  *)
(* request with a page / an item, or the request fails.                    *)
(***************************************************************************)
EXTENDS Integers, Sequences, FiniteSets, TLC

VARIABLES
    caller,       \* who invoked the agent method: "api" (a library caller) or "main" (the CLI)
    op,           \* the agent method in progress: "list_items", "get_item", "update_item", "none"
    pc,           \* position of the running program (see the actions)
    service,      \* the remote service: "wellbehaved" (serves a fixed collection) or "arbitrary"
    N,            \* size of the collection a well-behaved service serves (items 1..N)
    limit,        \* list_items: the limit argument (page size)
    offset,       \* list_items: local offset
    total_items,  \* list_items: local total_items (None before the first page)
    all_items,    \* list_items: local all_items
    data,         \* update_item: the data argument
    requests,     \* the requests _make_request has issued, in order (the first MaxLog of them)
    pages,        \* list_items: number of pages received so far (counted up to MaxLog)
    stopCum,      \* history: some page so far had cumulative count >= total, or was short
    stopOff,      \* history: some page so far had pages*limit >= total, or was short
    maxTotal,     \* history: the largest total reported so far
    error,        \* the error of the failed request ("none" when none failed)
    outcome,      \* what the caller of the agent method gets back
    exit_status,  \* the process's exit status once it has ended (None while running)
    env_ok,       \* main: all of WEBFLOW_API_TOKEN, WEBFLOW_SITE_ID, WEBFLOW_COLLECTION_ID are set
    command,      \* main: args.command
    args,         \* main: the update command's parsed arguments
    update_data,  \* main: the update command's local update_data
    document,     \* accessor: the document d
    path,         \* accessor: the path p
    newValue,     \* accessor: the value v
    written,      \* accessor: what write(d, p, v) gave
    readback      \* accessor: what read(written, p) gave

agentVars == <<caller, op, pc, service, N, limit, offset, total_items, all_items, data,
               requests, pages, stopCum, stopOff, maxTotal, error, outcome, exit_status>>
mainVars == <<env_ok, command, args, update_data>>
docVars == <<document, path, newValue, written, readback>>
vars == <<agentVars, mainVars, docVars>>

----------------------------------------------------------------------------
(* Bounds of the model *)

MaxLimit == 2        \* limit is drawn from 0..MaxLimit
MaxN == 4            \* a well-behaved service holds 0..MaxN items
MaxTotal == 4        \* an arbitrary service reports totals 0..MaxTotal
MaxLog == MaxTotal + 2   \* requests and pages are recorded up to this many
MaxItems == (MaxLimit + 1) * MaxTotal   \* all_items is followed up to this length

(* Python's None for an integer-valued local *)
None == -1

(* list_items' default limit *)
DEFAULT_LIMIT == 100

Min(a, b) == IF a < b THEN a ELSE b
Max(a, b) == IF a > b THEN a ELSE b
CeilDiv(a, b) == (a + b - 1) \div b

EmptyMap == [k \in {} |-> 0]

(* h with e appended, while the log has room *)
Log(h, e) == IF Len(h) < MaxLog THEN Append(h, e) ELSE h
Count(c) == IF c < MaxLog THEN c + 1 ELSE c

----------------------------------------------------------------------------
(* Values: outcomes of a call, requests, JSON values *)

NoOutcome == [kind |-> "none"]
Returned(v) == [kind |-> "return", value |-> v]
Raised(e) == [kind |-> "raise", exc |-> e]
SystemExit(code) == [kind |-> "raise", exc |-> "SystemExit", code |-> code]

(* requests.exceptions.RequestException: a transport failure or, from
   raise_for_status, a non-2xx response *)
RequestExceptions == {"ConnectionError", "HTTPError"}

Num(n) == [t |-> "num", n |-> n]
Str(s) == [t |-> "str", s |-> s]
List(q) == [t |-> "seq", q |-> q]
Map(f) == [t |-> "map", f |-> f]

(* m with key k set to v *)
Put(m, k, v) == [x \in DOMAIN m \cup {k} |-> IF x = k THEN v ELSE m[x]]

(* The items of a page of n items requested at offset o: item i of the
   collection is the number i.  list_items never looks into an item, so an
   arbitrary service's pages differ from these in their length only. *)
PageItems(o, n) == [i \in 1..n |-> o + i]

----------------------------------------------------------------------------
(* WebflowAgent.list_items *)

ListEndpoint(l, o) == [method |-> "get", kind |-> "items", limit |-> l, offset |-> o,
                       body |-> <<>>]

LoopContinues_inclusive(total, o) == total = None \/ o <= total
LoopContinues(total, o) == total = None \/ o < total

ShortPage_never(n, l) == FALSE
ShortPage(n, l) == n < l

NextOffset_stuck(o, l) == o
NextOffset_plusOne(o, l) == o + 1
NextOffset(o, l) == o + l

(* lines 81-83: the locals of a fresh invocation *)
EnterListItems(who, l) ==
    /\ caller' = who
    /\ op' = "list_items"
    /\ limit' = l
    /\ offset' = 0
    /\ total_items' = None
    /\ all_items' = <<>>
    /\ pc' = "loop"
    /\ UNCHANGED <<service, N, data, requests, pages, stopCum, stopOff, maxTotal,
                   error, outcome, exit_status>>

ApiListItems ==
    /\ pc = "idle"
    /\ \E l \in 0..MaxLimit : EnterListItems("api", l)
    /\ UNCHANGED <<mainVars, docVars>>

(* line 85 true, lines 86-87: the next page is requested *)
ListRequest ==
    /\ pc = "loop"
    /\ LoopContinues(total_items, offset)
    /\ requests' = Log(requests, ListEndpoint(limit, offset))
    /\ pc' = "await"
    /\ UNCHANGED <<caller, op, service, N, limit, offset, total_items, all_items, data,
                   pages, stopCum, stopOff, maxTotal, error, outcome, exit_status>>
    /\ UNCHANGED <<mainVars, docVars>>

(* line 85 false, line 107 *)
ListReturn ==
    /\ pc = "loop"
    /\ ~LoopContinues(total_items, offset)
    /\ outcome' = Returned(all_items)
    /\ pc' = "returned"
    /\ UNCHANGED <<caller, op, service, N, limit, offset, total_items, all_items, data,
                   requests, pages, stopCum, stopOff, maxTotal, error, exit_status>>
    /\ UNCHANGED <<mainVars, docVars>>

(* The page a well-behaved service returns: the items at [offset, offset+limit). *)
HonestPageSize(o, l) == Max(0, Min(l, N - o))

(* The page sizes the service may answer a request for l items with: fewer,
   as many, or one more than was asked for. *)
PageSizes(l) == {n \in 0..(l + 1) : Len(all_items) + n <= MaxItems}

(* lines 90-105: a page of n items with reported total t has arrived *)
ListPage ==
    /\ pc = "await"
    /\ op = "list_items"
    /\ \E n \in PageSizes(limit), t \in 0..MaxTotal :
        /\ service = "wellbehaved" => (n = HonestPageSize(offset, limit) /\ t = N)
        /\ all_items' = all_items \o PageItems(offset, n)
        /\ total_items' = t
        /\ pages' = Count(pages)
        /\ maxTotal' = Max(maxTotal, t)
        /\ stopCum' = (stopCum \/ Len(all_items) + n >= t \/ n < limit)
        /\ stopOff' = (stopOff \/ Count(pages) * limit >= t \/ n < limit)
        /\ IF ShortPage(n, limit)
              THEN /\ offset' = offset
                   /\ outcome' = Returned(all_items \o PageItems(offset, n))
                   /\ pc' = "returned"
              ELSE /\ offset' = NextOffset(offset, limit)
                   /\ outcome' = outcome
                   /\ pc' = "loop"
    /\ UNCHANGED <<caller, op, service, N, limit, data, requests, error, exit_status>>
    /\ UNCHANGED <<mainVars, docVars>>

----------------------------------------------------------------------------
(* WebflowAgent._make_request: the except branch *)

(* lines 62-66: what the except branch leaves behind. partial is what the
   interrupted method had collected. *)
OnRequestException_propagate(e, partial) ==
    [pc |-> "raised", outcome |-> Raised(e), exit_status |-> None]
OnRequestException_partial(e, partial) ==
    [pc |-> "returned", outcome |-> Returned(partial), exit_status |-> None]
OnRequestException(e, partial) ==
    [pc |-> "exited", outcome |-> SystemExit(1), exit_status |-> 1]

(* lines 62-66: the pending request fails; the error is printed and the
   process exits with status 1 *)
RequestFails ==
    /\ pc = "await"
    /\ \E e \in RequestExceptions :
        LET x == OnRequestException(e, all_items) IN
        /\ error' = e
        /\ outcome' = x.outcome
        /\ pc' = x.pc
        /\ exit_status' = x.exit_status
    /\ UNCHANGED <<caller, op, service, N, limit, offset, total_items, all_items, data,
                   requests, pages, stopCum, stopOff, maxTotal>>
    /\ UNCHANGED <<mainVars, docVars>>

----------------------------------------------------------------------------
(* WebflowAgent.get_item and WebflowAgent.update_item *)

Bool(b) == [t |-> "bool", b |-> b]

ItemEndpoint(method, body) == [method |-> method, kind |-> "item", limit |-> None,
                               offset |-> None, body |-> body]

(* lines 136-144 *)
UpdatePayload_all(d) == d
UpdatePayload(d) ==
    LET u0 == EmptyMap
        u1 == IF "fieldData" \in DOMAIN d THEN Put(u0, "fieldData", d["fieldData"]) ELSE u0
        u2 == IF "isArchived" \in DOMAIN d THEN Put(u1, "isArchived", d["isArchived"]) ELSE u1
        u3 == IF "isDraft" \in DOMAIN d THEN Put(u2, "isDraft", d["isDraft"]) ELSE u2
        u4 == IF "cmsLocaleId" \in DOMAIN d THEN Put(u3, "cmsLocaleId", d["cmsLocaleId"]) ELSE u3
    IN u4

(* lines 119-120 *)
EnterGetItem(who) ==
    /\ caller' = who
    /\ op' = "get_item"
    /\ requests' = Log(requests, ItemEndpoint("get", <<>>))
    /\ pc' = "await"
    /\ UNCHANGED <<service, N, limit, offset, total_items, all_items, data, pages,
                   stopCum, stopOff, maxTotal, error, outcome, exit_status>>

(* lines 133-146 *)
EnterUpdateItem(who, d) ==
    /\ caller' = who
    /\ op' = "update_item"
    /\ data' = d
    /\ requests' = Log(requests, ItemEndpoint("patch", <<UpdatePayload(d)>>))
    /\ pc' = "await"
    /\ UNCHANGED <<service, N, limit, offset, total_items, all_items, pages,
                   stopCum, stopOff, maxTotal, error, outcome, exit_status>>

ApiGetItem ==
    /\ pc = "idle"
    /\ EnterGetItem("api")
    /\ UNCHANGED <<mainVars, docVars>>

(* The keys and values a library caller's data is drawn from *)
DataKeys == {"fieldData", "isArchived", "isDraft", "cmsLocaleId", "id", "lastUpdated"}
DataValues == {Num(1), Bool(TRUE)}
DataMaps == UNION {[S -> DataValues] : S \in SUBSET DataKeys}

ApiUpdateItem ==
    /\ pc = "idle"
    /\ \E d \in DataMaps : EnterUpdateItem("api", d)
    /\ UNCHANGED <<mainVars, docVars>>

(* lines 60-61 for get_item and update_item: the service answers with the item *)
ItemResponse ==
    /\ pc = "await"
    /\ op \in {"get_item", "update_item"}
    /\ outcome' = Returned("item")
    /\ pc' = "returned"
    /\ UNCHANGED <<caller, op, service, N, limit, offset, total_items, all_items, data,
                   requests, pages, stopCum, stopOff, maxTotal, error, exit_status>>
    /\ UNCHANGED <<mainVars, docVars>>

----------------------------------------------------------------------------
(* main(): the command-line interface *)

(* An optional argument: <<>> when not given (None), <<x>> when given. *)
Given(a) == a # <<>>
Truthy(a) == a # <<>> /\ a[1] # ""

(* The --field-data texts of the model, and json.loads on them *)
ValidJson == {"{\"name\": \"Intro\"}", "{}", "\"plain\"", "7"}
InvalidJson == {"plain text", "{\"name\": "}
FieldDataTexts == ValidJson \cup InvalidJson \cup {""}

json_loads(text) ==
    CASE text = "{\"name\": \"Intro\"}" ->
            [ok |-> TRUE, value |-> Map([k \in {"name"} |-> Str("Intro")])]
      [] text = "{}" -> [ok |-> TRUE, value |-> Map(EmptyMap)]
      [] text = "\"plain\"" -> [ok |-> TRUE, value |-> Str("plain")]
      [] text = "7" -> [ok |-> TRUE, value |-> Num(7)]
      [] OTHER -> [ok |-> FALSE]

(* lines 334-352: the update command's update_data, or the error return of
   lines 340-342 *)
BuildUpdateData_fallback(a) ==
    LET parsed == IF Truthy(a.field_data) THEN json_loads(a.field_data[1]) ELSE [ok |-> FALSE]
        u1 == IF Truthy(a.field_data)
                 THEN Put(EmptyMap, "fieldData",
                          IF parsed.ok THEN parsed.value ELSE Str(a.field_data[1]))
                 ELSE EmptyMap
        u2 == IF Given(a.is_archived) THEN Put(u1, "isArchived", Bool(a.is_archived[1])) ELSE u1
        u3 == IF Given(a.is_draft) THEN Put(u2, "isDraft", Bool(a.is_draft[1])) ELSE u2
        u4 == IF Truthy(a.cms_locale_id) THEN Put(u3, "cmsLocaleId", Str(a.cms_locale_id[1])) ELSE u3
    IN [error |-> FALSE, update_data |-> u4]
BuildUpdateData(a) ==
    LET parsed == IF Truthy(a.field_data) THEN json_loads(a.field_data[1]) ELSE [ok |-> FALSE]
        u1 == IF Truthy(a.field_data) /\ parsed.ok
                 THEN Put(EmptyMap, "fieldData", parsed.value)
                 ELSE EmptyMap
        u2 == IF Given(a.is_archived) THEN Put(u1, "isArchived", Bool(a.is_archived[1])) ELSE u1
        u3 == IF Given(a.is_draft) THEN Put(u2, "isDraft", Bool(a.is_draft[1])) ELSE u2
        u4 == IF Truthy(a.cms_locale_id) THEN Put(u3, "cmsLocaleId", Str(a.cms_locale_id[1])) ELSE u3
    IN IF Truthy(a.field_data) /\ ~parsed.ok
          THEN [error |-> TRUE, update_data |-> EmptyMap]
          ELSE [error |-> FALSE, update_data |-> u4]

NoArgs == [field_data |-> <<>>, is_archived |-> <<>>, is_draft |-> <<>>, cms_locale_id |-> <<>>]

UpdateArgs ==
    [field_data : {<<>>} \cup {<<x>> : x \in FieldDataTexts},
     is_archived : {<<>>, <<TRUE>>, <<FALSE>>},
     is_draft : {<<>>, <<TRUE>>},
     cms_locale_id : {<<>>, <<"">>, <<"en">>}]

Commands == {"list", "get", "extract", "update", "none"}

(* main returns: the process ends with status 0 *)
MainReturns ==
    /\ pc' = "done"
    /\ exit_status' = 0
    /\ caller' = "main"
    /\ UNCHANGED <<op, service, N, limit, offset, total_items, all_items, data, requests,
                   pages, stopCum, stopOff, maxTotal, error, outcome>>

(* lines 290-295 *)
MainMissingEnv ==
    /\ pc = "idle"
    /\ ~env_ok
    /\ \E c \in Commands, a \in UpdateArgs :
        /\ a # NoArgs => c = "update"
        /\ command' = c
        /\ args' = a
    /\ MainReturns
    /\ UNCHANGED <<env_ok, update_data, docVars>>

(* lines 301-303 *)
MainList ==
    /\ pc = "idle"
    /\ env_ok
    /\ command' = "list"
    /\ EnterListItems("main", DEFAULT_LIMIT)
    /\ UNCHANGED <<env_ok, args, update_data, docVars>>

(* lines 310-312 and 315-317 *)
MainGet ==
    /\ pc = "idle"
    /\ env_ok
    /\ command' \in {"get", "extract"}
    /\ EnterGetItem("main")
    /\ UNCHANGED <<env_ok, args, update_data, docVars>>

(* lines 330-359 *)
MainUpdate_noEmptyCheck ==
    /\ pc = "idle"
    /\ env_ok
    /\ command' = "update"
    /\ \E a \in UpdateArgs :
        LET b == BuildUpdateData(a) IN
        /\ args' = a
        /\ update_data' = b.update_data
        /\ IF b.error
              THEN MainReturns
              ELSE EnterUpdateItem("main", b.update_data)
    /\ UNCHANGED <<env_ok, docVars>>
MainUpdate ==
    /\ pc = "idle"
    /\ env_ok
    /\ command' = "update"
    /\ \E a \in UpdateArgs :
        LET b == BuildUpdateData(a) IN
        /\ args' = a
        /\ update_data' = b.update_data
        /\ IF b.error \/ DOMAIN b.update_data = {}
              THEN MainReturns
              ELSE EnterUpdateItem("main", b.update_data)
    /\ UNCHANGED <<env_ok, docVars>>

(* lines 364-365 *)
MainHelp ==
    /\ pc = "idle"
    /\ env_ok
    /\ command' = "none"
    /\ MainReturns
    /\ UNCHANGED <<env_ok, args, update_data, docVars>>

(* lines 304-308, 313, 318-328, 361-362: the agent's method has returned to
   main, which shows the result and returns *)
MainFinish ==
    /\ pc = "returned"
    /\ caller = "main"
    /\ pc' = "done"
    /\ exit_status' = 0
    /\ UNCHANGED <<caller, op, service, N, limit, offset, total_items, all_items, data,
                   requests, pages, stopCum, stopOff, maxTotal, error, outcome>>
    /\ UNCHANGED <<mainVars, docVars>>

----------------------------------------------------------------------------
(* The path-addressed document accessor: extract_document_content (read) and
   update_document_content (write), which src/example_usage.py calls on the
   agent.  Their code is not among the source files; they are modelled from
   the specification's section 4.1. *)

MaxPathLen == 3      \* paths have 0..MaxPathLen segments

Absent == [t |-> "absent"]
EmptyPathError == [t |-> "error", e |-> "EmptyPathError"]
NotAMapping == [t |-> "error", e |-> "NotAMapping"]

Keys == {"a", "0"}
Leaves == {Num(1), List(<<Num(1)>>)}
Maps1 == {Map(f) : f \in UNION {[S -> Leaves] : S \in SUBSET Keys}}
Documents == {Map(f) : f \in UNION {[S -> Leaves \cup Maps1] : S \in SUBSET Keys}}
Paths == UNION {[1..n -> Keys] : n \in 0..MaxPathLen}
NewValues == {Num(2), Map([k \in {"a"} |-> Num(1)])}

(* read(document, path): the value at path, Absent when the path does not
   resolve *)
RECURSIVE read(_, _)
read(d, p) ==
    IF p = <<>> THEN d
    ELSE IF d.t = "map" /\ Head(p) \in DOMAIN d.f
            THEN read(d.f[Head(p)], Tail(p))
            ELSE Absent

(* write(document, path, newValue): walking all segments but the last, a
   missing key gets an empty mapping, and the walk descends; the last key is
   set to newValue.  Where the walk meets a value that is no mapping, this
   operator puts a fresh mapping in its place (see WriteResults). *)
RECURSIVE write(_, _, _)
write_dropSiblings(d, p, v) ==
    LET m == IF d.t = "map" THEN d.f ELSE EmptyMap
        key == Head(p)
    IN IF Len(p) = 1
          THEN Map([k \in {key} |-> v])
          ELSE Map([k \in {key} |->
                      write(IF key \in DOMAIN m THEN m[key] ELSE Map(EmptyMap), Tail(p), v)])
write_keepExisting(d, p, v) ==
    LET m == IF d.t = "map" THEN d.f ELSE EmptyMap
        key == Head(p)
    IN IF Len(p) = 1
          THEN Map(IF key \in DOMAIN m THEN m ELSE Put(m, key, v))
          ELSE Map(Put(m, key,
                       write(IF key \in DOMAIN m THEN m[key] ELSE Map(EmptyMap), Tail(p), v)))
write(d, p, v) ==
    LET m == IF d.t = "map" THEN d.f ELSE EmptyMap
        key == Head(p)
    IN IF Len(p) = 1
          THEN Map(Put(m, key, v))
          ELSE Map(Put(m, key,
                       write(IF key \in DOMAIN m THEN m[key] ELSE Map(EmptyMap), Tail(p), v)))

(* The walk of write meets only mappings: each key before the last is either
   missing or holds a mapping. *)
RECURSIVE WalkDefined(_, _)
WalkDefined(d, p) ==
    /\ d.t = "map"
    /\ \/ Len(p) = 1
       \/ Head(p) \notin DOMAIN d.f
       \/ WalkDefined(d.f[Head(p)], Tail(p))

(* What write may give.  The specification leaves open what happens when the
   walk meets a value that is no mapping: the write may fail, or replace the
   value by a fresh mapping. *)
WriteResults(d, p, v) ==
    IF p = <<>> THEN {EmptyPathError}
    ELSE IF WalkDefined(d, p) THEN {write(d, p, v)}
    ELSE {NotAMapping, write(d, p, v)}

(* agent.extract_document_content(item, path) *)
DocExtract ==
    /\ pc = "doc"
    /\ readback' = read(document, path)
    /\ pc' = "doc_extracted"
    /\ UNCHANGED <<caller, op, service, N, limit, offset, total_items, all_items, data,
                   requests, pages, stopCum, stopOff, maxTotal, error, outcome, exit_status>>
    /\ UNCHANGED <<mainVars, document, path, newValue, written>>

(* agent.update_document_content(item, path, new_content) *)
DocUpdate ==
    /\ pc \in {"doc", "doc_extracted"}
    /\ \E r \in WriteResults(document, path, newValue) :
        /\ written' = r
        /\ pc' = IF r.t = "map" THEN "doc_written" ELSE "doc_failed"
    /\ UNCHANGED <<caller, op, service, N, limit, offset, total_items, all_items, data,
                   requests, pages, stopCum, stopOff, maxTotal, error, outcome, exit_status>>
    /\ UNCHANGED <<mainVars, document, path, newValue, readback>>

(* reading the written document back at the same path *)
DocReadBack ==
    /\ pc = "doc_written"
    /\ readback' = read(written, path)
    /\ pc' = "doc_read"
    /\ UNCHANGED <<caller, op, service, N, limit, offset, total_items, all_items, data,
                   requests, pages, stopCum, stopOff, maxTotal, error, outcome, exit_status>>
    /\ UNCHANGED <<mainVars, document, path, newValue, written>>

----------------------------------------------------------------------------
(* The program *)

AgentIdle ==
    /\ caller = "none"
    /\ op = "none"
    /\ limit = 0
    /\ offset = 0
    /\ total_items = None
    /\ all_items = <<>>
    /\ data = EmptyMap
    /\ requests = <<>>
    /\ pages = 0
    /\ stopCum = FALSE
    /\ stopOff = FALSE
    /\ maxTotal = 0
    /\ error = "none"
    /\ outcome = NoOutcome
    /\ exit_status = None
    /\ command = "none"
    /\ args = NoArgs
    /\ update_data = EmptyMap

DocIdle ==
    /\ document = Map(EmptyMap)
    /\ path = <<>>
    /\ newValue = Num(0)
    /\ written = Map(EmptyMap)
    /\ readback = Map(EmptyMap)

Init ==
    /\ pc = "idle"
    /\ \/ service = "wellbehaved" /\ N \in 0..MaxN
       \/ service = "arbitrary" /\ N = 0
    /\ env_ok \in BOOLEAN
    /\ AgentIdle
    /\ DocIdle

Next ==
    \/ ApiListItems
    \/ ListRequest
    \/ ListReturn
    \/ ListPage
    \/ RequestFails
    \/ ApiGetItem
    \/ ApiUpdateItem
    \/ ItemResponse
    \/ MainMissingEnv
    \/ MainList
    \/ MainGet
    \/ MainUpdate
    \/ MainHelp
    \/ MainFinish

Spec == Init /\ [][Next]_vars

(* The program keeps running while it can, and the service answers every
   request (with a page, an item or a failure). *)
FairSpec == Spec /\ WF_vars(Next)

(* The accessor on its own: any document, path and value *)
InitDoc ==
    /\ pc = "doc"
    /\ service = "arbitrary"
    /\ N = 0
    /\ env_ok = TRUE
    /\ AgentIdle
    /\ document \in Documents
    /\ path \in Paths
    /\ newValue \in NewValues
    /\ written = Absent
    /\ readback = Absent

NextDoc ==
    \/ DocExtract
    \/ DocUpdate
    \/ DocReadBack

SpecDoc == InitDoc /\ [][NextDoc]_vars

----------------------------------------------------------------------------
(* Properties *)

Ended == pc \in {"returned", "exited", "done"}
PatchKeys == {"fieldData", "isArchived", "isDraft", "cmsLocaleId"}
InvalidFieldData == Truthy(args.field_data) /\ args.field_data[1] \in InvalidJson

(* C1: against a well-behaved service holding N items, list_items with
   limit >= 1 returns exactly the items 1..N in order, and has then issued
   exactly max(1, ceil(N / limit)) page requests; it never issues more. *)
C1_CompleteRetrieval ==
    (op = "list_items" /\ service = "wellbehaved" /\ limit >= 1) =>
        /\ Len(requests) <= Max(1, CeilDiv(N, limit))
        /\ (pc \in {"returned", "done"} =>
              /\ outcome = Returned([i \in 1..N |-> i])
              /\ Len(requests) = Max(1, CeilDiv(N, limit))
              /\ pages = Len(requests))

C1_Witness ==
    /\ op = "list_items" /\ service = "wellbehaved" /\ pc = "returned"
    /\ limit = 2 /\ N = 4
    /\ Len(requests) = 2
    /\ outcome = Returned(<<1, 2, 3, 4>>)

(* C2 as stated: once a page has arrived at which the cumulative count of
   items has reached the reported total, or which was shorter than limit,
   no further page request is issued. *)
C2_Original == [][stopCum => ~ListRequest]_vars

(* C2, amended: once a page has arrived at which the number of pages
   received times limit (the next offset) has reached the reported total, or
   which was shorter than limit, no further page request is issued. *)
C2_StopRule == [][stopOff => ~ListRequest]_vars

C2_Witness ==
    /\ op = "list_items" /\ service = "arbitrary" /\ pc = "returned"
    /\ limit = 2 /\ pages = 2 /\ Len(requests) = 2
    /\ Len(all_items) = 3 /\ total_items = 4

(* C3 as stated: list_items always ends, whatever limit is and whatever
   the service answers. *)
C3_Original == (op = "list_items") ~> Ended

(* C3, amended: with limit >= 1, list_items never issues more than
   max(1, ceil(T / limit)) page requests, T the largest total reported so
   far, and it ends. *)
C3_Terminates ==
    /\ []((op = "list_items" /\ limit >= 1) =>
             Len(requests) <= Max(1, CeilDiv(maxTotal, limit)))
    /\ ((op = "list_items" /\ limit >= 1) ~> Ended)

C3_Witness ==
    /\ op = "list_items" /\ service = "arbitrary" /\ pc = "returned"
    /\ limit = 1 /\ pages = 3
    /\ total_items > Len(all_items)

(* C4: when a page request of list_items fails, the fetch is over: the
   process exits with status 1, nothing is returned to the caller (the items
   of earlier pages included), no request follows and the failed request was
   issued once. *)
C4_AbortOnFailure ==
    (op = "list_items" /\ error # "none") =>
        /\ pc = "exited"
        /\ exit_status = 1
        /\ outcome = SystemExit(1)
        /\ ~ENABLED Next
        /\ (Len(requests) < MaxLog => Len(requests) = pages + 1)

C4_Witness ==
    /\ op = "list_items" /\ error # "none"
    /\ pages = 1 /\ Len(all_items) = 2 /\ Len(requests) = 2

(* C7 as stated: get_item and update_item issue one request, and when it
   fails the caller gets the request's error, unchanged, as the outcome. *)
C7_Original ==
    (op \in {"get_item", "update_item"} /\ error # "none") =>
        /\ Len(requests) = 1
        /\ outcome = Raised(error)

(* C7, amended: get_item and update_item issue exactly one request; when it
   fails, _make_request itself ends the process with status 1 (SystemExit),
   so the caller gets neither the error nor a result, and nothing is
   retried. *)
C7_SingleRequestExit ==
    (op \in {"get_item", "update_item"}) =>
        /\ Len(requests) = 1
        /\ (error # "none" =>
              /\ outcome = SystemExit(1)
              /\ pc = "exited"
              /\ exit_status = 1
              /\ ~ENABLED Next)
        /\ (error = "none" /\ Ended => outcome = Returned("item"))

C7_Witness ==
    /\ op = "update_item" /\ caller = "api" /\ error = "HTTPError" /\ pc = "exited"

(* C8: the body of update_item's PATCH request holds exactly the keys of
   fieldData, isArchived, isDraft, cmsLocaleId that data has, each with
   data's value, and data is left as it was. *)
C8_Payload ==
    /\ [](op = "update_item" =>
            /\ Len(requests) = 1
            /\ requests[1].method = "patch"
            /\ LET body == requests[1].body[1] IN
               /\ DOMAIN body = DOMAIN data \cap PatchKeys
               /\ \A k \in DOMAIN body : body[k] = data[k])
    /\ [][op = "update_item" => data' = data]_vars

C8_Witness ==
    /\ op = "update_item" /\ caller = "api" /\ pc = "returned"
    /\ DOMAIN data = {"fieldData", "cmsLocaleId", "id"}

(* C9 as stated: an update command whose --field-data is not valid JSON
   still issues the update, carrying the text as a string. *)
C9_Original ==
    (command = "update" /\ env_ok /\ InvalidFieldData /\ pc = "done") =>
        /\ Len(requests) = 1
        /\ requests[1].method = "patch"
        /\ requests[1].body[1] = Put(UpdatePayload(update_data), "fieldData",
                                     Str(args.field_data[1]))

(* C9, amended: an update command whose --field-data is not valid JSON
   reports the error and returns with status 0 without issuing any request,
   whatever its other options are. *)
C9_InvalidJsonReturns ==
    (command = "update" /\ env_ok /\ InvalidFieldData) =>
        /\ requests = <<>>
        /\ op = "none"
        /\ pc = "done"
        /\ exit_status = 0

C9_Witness ==
    /\ command = "update" /\ env_ok /\ InvalidFieldData /\ pc = "done"
    /\ args.is_archived = <<TRUE>>

(* The requests of list_items are issued one at a time: as many as pages
   have arrived, plus the one that is pending or has failed. *)
OneAtATime ==
    Len(requests) < MaxLog =>
        Len(requests) = pages + (IF pc = "await" \/ error # "none" THEN 1 ELSE 0)

(* C10 as stated: the requests of list_items are issued one at a time, the
   k-th with limit and offset (k-1)*limit, and the offsets strictly increase. *)
C10_Original ==
    op = "list_items" =>
        /\ OneAtATime
        /\ \A k \in 1..Len(requests) :
              /\ requests[k].method = "get" /\ requests[k].kind = "items"
              /\ requests[k].limit = limit
              /\ requests[k].offset = (k - 1) * limit
        /\ \A j, k \in 1..Len(requests) : j < k => requests[j].offset < requests[k].offset

(* C10, amended: the requests of list_items are issued one at a time, the
   k-th with limit and offset (k-1)*limit; with limit >= 1 the offsets
   strictly increase, so none is requested twice. *)
C10_RequestOrder ==
    op = "list_items" =>
        /\ OneAtATime
        /\ \A k \in 1..Len(requests) :
              /\ requests[k].method = "get" /\ requests[k].kind = "items"
              /\ requests[k].limit = limit
              /\ requests[k].offset = (k - 1) * limit
        /\ limit >= 1 =>
             \A j, k \in 1..Len(requests) : j < k => requests[j].offset < requests[k].offset

C10_Witness ==
    /\ op = "list_items" /\ limit = 2 /\ pc = "await"
    /\ Len(requests) = 2 /\ requests[1].offset = 0 /\ requests[2].offset = 2

(* q and p address different places, neither inside the other *)
Incomparable(q, p) ==
    \E i \in 1..Min(Len(q), Len(p)) :
        /\ q[i] # p[i]
        /\ \A j \in 1..(i - 1) : q[j] = p[j]

(* every proper prefix of p that resolves in d resolves to a mapping *)
MappingsAlong(d, p) ==
    \A i \in 1..(Len(p) - 1) :
        read(d, SubSeq(p, 1, i)).t \in {"absent", "map"}

C6_NonInterference ==
    pc \in {"doc_written", "doc_read"} =>
        \A q \in Paths : Incomparable(q, path) => read(written, q) = read(document, q)

C6_Witness ==
    /\ pc = "doc_written" /\ path = <<"a", "0", "a">>
    /\ read(document, <<"a", "0">>) = Absent
    /\ read(document, <<"a", "a">>) = Num(1)
    /\ read(document, <<"0", "a">>) = Num(1)
    /\ read(written, <<"a", "a">>) = Num(1)

(* the positions of the PATCH requests issued so far *)
PatchRequests == {k \in 1..Len(requests) : requests[k].method = "patch"}

(* the update command was given nothing to update: --field-data and
   --cms-locale-id absent or empty, --is-archived and --is-draft absent *)
NoUpdateGiven ==
    /\ ~Truthy(args.field_data)
    /\ ~Given(args.is_archived)
    /\ ~Given(args.is_draft)
    /\ ~Truthy(args.cms_locale_id)

(* C11: in a run of the command line, a PATCH request is issued only by the
   update command, at most once, and only with a non-empty update_data as
   its body; list, get and extract issue GET requests only (as list_items
   and get_item do for any caller); and no request at all is issued when a
   configuration value is missing or when update is given nothing to
   update. *)
C11_CliRequests ==
    /\ op \in {"list_items", "get_item"} =>
          \A k \in 1..Len(requests) : requests[k].method = "get"
    /\ caller = "main" =>
          /\ Cardinality(PatchRequests) <= 1
          /\ \A k \in PatchRequests :
                /\ command = "update"
                /\ env_ok
                /\ DOMAIN update_data # {}
                /\ requests[k].body = <<update_data>>
          /\ command \in {"list", "get", "extract"} =>
                \A k \in 1..Len(requests) : requests[k].method = "get"
          /\ ~env_ok => requests = <<>>
          /\ (command = "update" /\ (NoUpdateGiven \/ DOMAIN update_data = {})) =>
                requests = <<>>

C11_Witness ==
    /\ caller = "main" /\ command = "update" /\ pc = "done"
    /\ args.field_data = <<"">> /\ args.is_archived = <<FALSE>>
    /\ PatchRequests = {1}
    /\ requests[1].body = <<[k \in {"isArchived"} |-> Bool(FALSE)]>>

====
